---- MODULE Spec2Model ----
(***************************************************************************)
(* Geo Profile Generator (src/script.py): one run of the command-line      *)
(* program, from the imports at the top of the file to the process exit,   *)
(* and a second run of the same command line at a later moment.            *)
(*                                                                         *)
(* Money is counted in cents, but every product, sum and round(x, 2) is    *)
(* computed on the IEEE 754 doubles Python computes it on.  Angles are in  *)
(* units of 0.0001 degree, tax rates in percent, dates in days since       *)
(* 1970-01-01.  Strings that the code takes apart (ZIP codes, city names,  *)
(* zip_city) are sequences of characters.  random (the module-wide stream) *)
(* and Faker's generator are two streams, each a state that every draw     *)
(* advances.                                                               *)
(*                                                                         *)
(* The class body of GeoProfileGenerator ends at line 288: the functions   *)
(* of lines 290-496 (generate_stueckzahl to create_map) are defined at     *)
(* module level, though main and generate_profile call them as attributes  *)
(* of the generator.  attached says whether they resolve: FALSE is the     *)
(* file as it is, where line 524 raises AttributeError; TRUE is a          *)
(* generator whose class has been given them, the only one that returns a  *)
(* profile.                                                                *)
(***************************************************************************)
EXTENDS Integers, Sequences, FiniteSets, TLC

\* ------------------------------------------------------------------
\* Bounds of the model
\* ------------------------------------------------------------------
\* --num ranges over -1..MaxCount
MaxCount == 2
\* an unseeded stream starts in one of the states EntropyState(0..MaxEntropy)
MaxEntropy == 2
\* the second run starts 0..MaxDelay days after the first
MaxDelay == 1
\* the day of the first run (2024-10-04)
FirstDay == 20000
\* --seed ranges over None and these: 1 and 42 are the seeds of the
\* specification's scenarios, 122 gives a purchase whose tax is a whole number
\* of cents and a half, 237 a profile of Sachsen with a quantity of 4
Seeds == {1, 42, 122, 237}

\* Python's None, and a value that is not None
None == <<>>
Some(x) == <<x>>

\* ------------------------------------------------------------------
\* Unbounded naturals: little-endian sequences of limbs below Base
\* ------------------------------------------------------------------
Base == 2^15
LimbBits == 15

Limb(a, i) == IF i <= Len(a) THEN a[i] ELSE 0

RECURSIVE BNorm(_)
BNorm(a) ==
  IF a = <<>> THEN a
  ELSE IF a[Len(a)] = 0 THEN BNorm(SubSeq(a, 1, Len(a) - 1)) ELSE a

RECURSIVE BFromInt(_)
BFromInt(n) == IF n = 0 THEN <<>> ELSE <<n % Base>> \o BFromInt(n \div Base)

RECURSIVE BToInt(_)
BToInt(a) == IF a = <<>> THEN 0 ELSE a[1] + Base * BToInt(Tail(a))

RECURSIVE BAddFrom(_, _, _, _)
BAddFrom(a, b, i, c) ==
  IF i > Len(a) /\ i > Len(b)
  THEN (IF c = 0 THEN <<>> ELSE <<c>>)
  ELSE LET s == Limb(a, i) + Limb(b, i) + c
       IN  <<s % Base>> \o BAddFrom(a, b, i + 1, s \div Base)

BAdd(a, b) == BAddFrom(a, b, 1, 0)

RECURSIVE BSubFrom(_, _, _, _)
BSubFrom(a, b, i, c) ==
  IF i > Len(a) THEN <<>>
  ELSE LET d == Limb(a, i) - Limb(b, i) - c
       IN  IF d < 0 THEN <<d + Base>> \o BSubFrom(a, b, i + 1, 1)
                    ELSE <<d>> \o BSubFrom(a, b, i + 1, 0)

\* a - b for a >= b
BSub(a, b) == BNorm(BSubFrom(a, b, 1, 0))

RECURSIVE BMulSmallFrom(_, _, _, _)
BMulSmallFrom(a, k, i, c) ==
  IF i > Len(a) THEN (IF c = 0 THEN <<>> ELSE <<c>>)
  ELSE LET p == a[i] * k + c
       IN  <<p % Base>> \o BMulSmallFrom(a, k, i + 1, p \div Base)

\* a * k for 0 <= k < Base
BMulSmall(a, k) == BNorm(BMulSmallFrom(a, k, 1, 0))

BShiftLimbs(a, n) == IF a = <<>> THEN a ELSE [i \in 1..n |-> 0] \o a

RECURSIVE BMulFrom(_, _, _)
BMulFrom(a, b, i) ==
  IF i > Len(b) THEN <<>>
  ELSE BAdd(BShiftLimbs(BMulSmall(a, b[i]), i - 1), BMulFrom(a, b, i + 1))

BMul(a, b) == BNorm(BMulFrom(a, b, 1))

RECURSIVE BDivRec(_, _, _, _)
BDivRec(a, d, i, r) ==
  IF i = 0 THEN [q |-> <<>>, r |-> r]
  ELSE LET cur  == r * Base + a[i]
           rest == BDivRec(a, d, i - 1, cur % d)
       IN  [q |-> rest.q \o <<cur \div d>>, r |-> rest.r]

\* quotient and remainder of a by d, 0 < d <= Base
BDivSmall(a, d) ==
  LET res == BDivRec(a, d, Len(a), 0) IN [q |-> BNorm(res.q), r |-> res.r]

RECURSIVE BitLenSmall(_)
BitLenSmall(n) == IF n = 0 THEN 0 ELSE 1 + BitLenSmall(n \div 2)

BitLen(a) == IF a = <<>> THEN 0 ELSE LimbBits * (Len(a) - 1) + BitLenSmall(a[Len(a)])

BShl(a, k) == BShiftLimbs(BMulSmall(a, 2^(k % LimbBits)), k \div LimbBits)

BShr(a, k) ==
  LET n == k \div LimbBits
  IN  IF n >= Len(a) THEN <<>>
      ELSE BDivSmall(SubSeq(a, n + 1, Len(a)), 2^(k % LimbBits)).q

\* bit j (from 0) of a
BBit(a, j) == (Limb(a, j \div LimbBits + 1) \div 2^(j % LimbBits)) % 2

\* a mod 2^k = 0
BLowZero(a, k) ==
  /\ \A i \in 1..(k \div LimbBits) : Limb(a, i) = 0
  /\ Limb(a, k \div LimbBits + 1) % 2^(k % LimbBits) = 0

RECURSIVE BLessFrom(_, _, _)
BLessFrom(a, b, i) ==
  IF i = 0 THEN FALSE
  ELSE IF a[i] # b[i] THEN a[i] < b[i] ELSE BLessFrom(a, b, i - 1)

\* a < b, for a and b without leading zero limbs
BLess(a, b) == IF Len(a) # Len(b) THEN Len(a) < Len(b) ELSE BLessFrom(a, b, Len(a))

\* ------------------------------------------------------------------
\* Python floats: IEEE 754 binary64, values >= 0, m * 2^e with
\* 2^52 <= m < 2^53 (m = <<>> for zero)
\* ------------------------------------------------------------------
MantBits == 53
FZero == [m |-> <<>>, e |-> 0]

\* nearest double (ties to even) to N * 2^e, or to a value just above it when sticky
FRound(N0, e, sticky) ==
  LET N == BNorm(N0)
      L == BitLen(N)
  IN  IF L = 0 THEN FZero
      ELSE IF L <= MantBits
      THEN [m |-> BShl(N, MantBits - L), e |-> e - (MantBits - L)]
      ELSE LET k     == L - MantBits
               q     == BShr(N, k)
               guard == BBit(N, k - 1) = 1
               rest  == sticky \/ ~BLowZero(N, k - 1)
               up    == guard /\ (rest \/ BBit(N, k) = 1)
               q1    == IF up THEN BAdd(q, <<1>>) ELSE q
           IN  IF BitLen(q1) > MantBits
               THEN [m |-> BShr(q1, 1), e |-> e + k + 1]
               ELSE [m |-> q1, e |-> e + k]

\* the double a decimal literal n/d denotes, 0 < d <= Base
FFromRatio(n, d) ==
  LET dv == BDivSmall(BShl(BFromInt(n), 75), d)
  IN  FRound(dv.q, -75, dv.r # 0)

FFromInt(n) == FRound(BFromInt(n), 0, FALSE)

\* the mantissas of x and y over the smaller of their exponents
Aligned(x, y) ==
  LET lo == IF x.e < y.e THEN x.e ELSE y.e
  IN  [x |-> BShl(x.m, x.e - lo), y |-> BShl(y.m, y.e - lo), e |-> lo]

FMul(x, y) == FRound(BMul(x.m, y.m), x.e + y.e, FALSE)

FAdd(x, y) ==
  IF x.m = <<>> THEN y
  ELSE IF y.m = <<>> THEN x
  ELSE LET a == Aligned(x, y) IN FRound(BAdd(a.x, a.y), a.e, FALSE)

\* x - y for x >= y
FSub(x, y) ==
  IF y.m = <<>> THEN x
  ELSE LET a == Aligned(x, y) IN FRound(BSub(a.x, a.y), a.e, FALSE)

\* x < y
FLess(x, y) ==
  IF y.m = <<>> THEN FALSE
  ELSE IF x.m = <<>> THEN TRUE
  ELSE LET a == Aligned(x, y) IN BLess(a.x, a.y)

\* round(x, 2) in cents: the exact value of x * 100 rounded to an integer, ties to even
Round2(x) ==
  IF x.m = <<>> THEN 0
  ELSE LET N == BMulSmall(x.m, 100)
       IN  IF x.e >= 0 THEN BToInt(BShl(N, x.e))
           ELSE LET k     == -x.e
                    q     == BToInt(BShr(N, k))
                    guard == BBit(N, k - 1) = 1
                    rest  == ~BLowZero(N, k - 1)
                IN  IF guard /\ (rest \/ q % 2 = 1) THEN q + 1 ELSE q
\* the 16 states (src/script.py:55-59)
states ==
  <<
    "Baden-Württemberg", "Bayern", "Berlin", "Brandenburg", "Bremen", "Hamburg",
    "Hessen", "Niedersachsen", "Mecklenburg-Vorpommern", "Nordrhein-Westfalen",
    "Rheinland-Pfalz", "Saarland", "Sachsen", "Sachsen-Anhalt", "Schleswig-Holstein",
    "Thüringen"
  >>

\* ZIP code bounds per state (src/script.py:62-82): a tuple of two ints, or for
\* Sachsen a list of two tuples of strings. A Python value carries its type.
\* A Python dict: its entries <<key, value>>, in the order written
Keys(d) == {d[i][1] : i \in DOMAIN d}
Get(d, k) == d[CHOOSE i \in DOMAIN d : d[i][1] = k][2]

PyInt(n) == [t |-> "int", v |-> n]
PyStr(cs) == [t |-> "str", v |-> cs]
PyTuple(a, b) == [t |-> "tuple", v |-> <<a, b>>]
PyList(xs) == [t |-> "list", v |-> xs]

zip_code_ranges ==
  << <<"Baden-Württemberg", PyTuple(PyInt(70000), PyInt(79999))>>,
     <<"Bayern", PyTuple(PyInt(80000), PyInt(99999))>>,
     <<"Berlin", PyTuple(PyInt(10000), PyInt(19999))>>,
     <<"Brandenburg", PyTuple(PyInt(14000), PyInt(14999))>>,
     <<"Bremen", PyTuple(PyInt(28000), PyInt(28999))>>,
     <<"Hamburg", PyTuple(PyInt(20000), PyInt(29999))>>,
     <<"Hessen", PyTuple(PyInt(60000), PyInt(69999))>>,
     <<"Niedersachsen", PyTuple(PyInt(26000), PyInt(29999))>>,
     <<"Mecklenburg-Vorpommern", PyTuple(PyInt(17000), PyInt(17999))>>,
     <<"Nordrhein-Westfalen", PyTuple(PyInt(40000), PyInt(49999))>>,
     <<"Rheinland-Pfalz", PyTuple(PyInt(55000), PyInt(59999))>>,
     <<"Saarland", PyTuple(PyInt(66000), PyInt(66999))>>,
     <<"Sachsen",
       PyList(<< PyTuple(PyStr(<<"0", "1", "0", "0", "0">>), PyStr(<<"0", "1", "9", "9", "9">>)),
                 PyTuple(PyStr(<<"0", "4", "0", "0", "0">>), PyStr(<<"0", "4", "9", "9", "9">>)) >>)>>,
     <<"Sachsen-Anhalt", PyTuple(PyInt(39000), PyInt(39999))>>,
     <<"Schleswig-Holstein", PyTuple(PyInt(24000), PyInt(25999))>>,
     <<"Thüringen", PyTuple(PyInt(99000), PyInt(99999))>> >>

\* male first names (src/script.py:85-93)
first_names_male ==
  <<
    "Lukas", "Max", "Paul", "Jonas", "Leon", "Felix", "Finn", "Ben", "Moritz", "Noah",
    "Johannes", "Tim", "Julian", "David", "Matthias", "Niklas", "Elias", "Alexander",
    "Tobias", "Samuel", "Lucas", "Jakob", "Fabian", "Andreas", "Markus", "Christian",
    "Stefan", "Simon", "Benjamin", "Daniel", "Michael", "Johann", "Mark", "Kai",
    "Martin", "Jakob", "Julian", "Tom", "Nico", "Patrick", "Sebastian", "Bastian",
    "Hannes", "Matthias", "Rafael", "Georg", "Arthur", "Lennard", "Oskar", "Jan",
    "Maurice", "Timothy"
  >>

\* female first names (src/script.py:95-103)
first_names_female ==
  <<
    "Anna", "Sophie", "Marie", "Emma", "Lena", "Laura", "Mia", "Hannah", "Lina",
    "Sophie", "Lea", "Sarah", "Charlotte", "Clara", "Amelie", "Lilli", "Emily", "Nina",
    "Ella", "Katharina", "Isabella", "Julia", "Lisa", "Franziska", "Marlene", "Greta",
    "Eva", "Luisa", "Paula", "Johanna", "Carla", "Leonie", "Lara", "Alina", "Klara",
    "Victoria", "Elena", "Sina", "Merle", "Maja", "Selina", "Antonia", "Tessa",
    "Nadine", "Isabel", "Vanessa", "Daniela", "Verena", "Bettina", "Jana", "Maike",
    "Melanie"
  >>

\* last names (src/script.py:105-113)
last_names ==
  <<
    "Müller", "Schmidt", "Schneider", "Fischer", "Weber", "Meyer", "Wagner", "Becker",
    "Hoffmann", "Schulz", "Bauer", "Koch", "Richter", "Klein", "Wolf", "Schröder",
    "Neumann", "Schwarz", "Zimmermann", "Braun", "Schmitt", "Hartmann", "Lange",
    "Werner", "Krause", "Peters", "Jung", "Roth", "Voigt", "Berger", "Mayer", "Fuchs",
    "Schulte", "Böhm", "Weiss", "Bergmann", "Kraus", "Vogel", "Lang", "Ziegler",
    "Sauer", "Weidner", "Meyerhoff", "Weigel", "Weber", "Wirth", "Krämer", "Röder",
    "Heinrich", "Hahn", "Böttcher", "Schulze"
  >>

\* email providers (src/script.py:116-126)
email_providers ==
  <<
    "gmx.de", "web.de", "t-online.de", "yahoo.de", "freenet.de", "aol.de", "mail.de",
    "tutanota.de", "hotmail.de", "outlook.de", "1und1.de", "posteo.de",
    "googlemail.com", "mailbox.org", "arcor.de", "ziggo.de", "gmx.net", "freemail.de",
    "scholar.de", "mymail.de", "bluewin.ch", "studiemail.de", "uni-mail.de", "gmx.at",
    "gmx.ch", "email.de", "deutschlandemail.de", "planet-interkom.de", "test.de",
    "versatel.de", "gmx.us", "gmx.co.uk", "gmx.fr", "mailplus.de", "citymail.de",
    "iserv.de", "gmx.org", "sapo.de", "mail.ru", "scout24.de", "onlinedeutsch.de",
    "blitzmail.de", "earthlink.net", "easy-mail.de", "eclipso.de", "freenetmail.de",
    "mailzilla.de", "surfmail.de", "gmx.us", "altavista.com", "dawnmail.de",
    "posteo.net"
  >>

\* city -> (latitude, longitude), in units of 0.0001 degree (src/script.py:129-154).
\* City names are sequences of characters, as zip_city is split on a space.
city_coords ==
  << <<<<"B", "e", "r", "l", "i", "n">>, <<525200, 134050>>>>,
     <<<<"M", "u", "n", "i", "c", "h">>, <<481351, 115820>>>>,
     <<<<"H", "a", "m", "b", "u", "r", "g">>, <<535511, 99937>>>>,
     <<<<"C", "o", "l", "o", "g", "n", "e">>, <<509375, 69603>>>>,
     <<<<"F", "r", "a", "n", "k", "f", "u", "r", "t">>, <<501109, 86821>>>>,
     <<<<"S", "t", "u", "t", "t", "g", "a", "r", "t">>, <<487758, 91829>>>>,
     <<<<"D", "ü", "s", "s", "e", "l", "d", "o", "r", "f">>, <<512217, 67762>>>>,
     <<<<"D", "o", "r", "t", "m", "u", "n", "d">>, <<515145, 74660>>>>,
     <<<<"E", "s", "s", "e", "n">>, <<514556, 70116>>>>,
     <<<<"L", "e", "i", "p", "z", "i", "g">>, <<513397, 123731>>>>,
     <<<<"B", "r", "e", "m", "e", "n">>, <<530793, 88017>>>>,
     <<<<"D", "r", "e", "s", "d", "e", "n">>, <<510504, 137373>>>>,
     <<<<"H", "a", "n", "o", "v", "e", "r">>, <<523792, 97196>>>>,
     <<<<"N", "u", "r", "e", "m", "b", "e", "r", "g">>, <<494521, 110767>>>>,
     <<<<"D", "u", "i", "s", "b", "u", "r", "g">>, <<514344, 67623>>>>,
     <<<<"B", "o", "c", "h", "u", "m">>, <<514818, 72162>>>>,
     <<<<"W", "u", "p", "p", "e", "r", "t", "a", "l">>, <<512562, 71500>>>>,
     <<<<"B", "i", "e", "l", "e", "f", "e", "l", "d">>, <<520302, 85325>>>>,
     <<<<"M", "ü", "n", "s", "t", "e", "r">>, <<519607, 76261>>>>,
     <<<<"M", "a", "n", "n", "h", "e", "i", "m">>, <<494875, 84671>>>>,
     <<<<"K", "a", "r", "l", "s", "r", "u", "h", "e">>, <<490141, 84044>>>>,
     <<<<"H", "a", "n", "n", "o", "v", "e", "r">>, <<523792, 97196>>>>,
     <<<<"N", "ü", "r", "n", "b", "e", "r", "g">>, <<494521, 110767>>>> >>

\* purchase items (src/script.py:157-170)
purchase_items ==
  <<
    "Hose", "T-Shirt", "Socken", "Jacke", "Schuhe", "Kleid", "Bluse", "Rock",
    "Pullover", "Jeans", "Shorts", "Mantel", "Anzug", "Mütze", "Schal", "Handschuhe",
    "Unterwäsche", "Badeanzug", "Jogginghose", "Hemd", "Polo-Shirt", "Top", "Pyjama",
    "Bikini", "Weste", "Leggings", "Poncho", "Strickjacke", "Overall",
    "Trainingsanzug", "Stirnband", "Strumpfhose", "Sandalen", "Stiefel", "Sneaker",
    "Pumps", "Slipper", "Cargohose", "Blazer", "Cardigan", "Gürtel", "Krawatte",
    "Fliege", "Latzhose", "Trachten", "Dirndl", "Halstuch", "Regenjacke", "Regenhose",
    "Wanderstiefel", "Kapuzenpullover", "Chinos", "Cargo-Shorts", "Pufferjacke",
    "Desert Boots", "Loafers", "Espadrilles", "Flip-Flops", "Hausschuhe",
    "Boxershorts", "Tanktop", "Badehose", "Radlerhose", "Sonnenhut", "Haarband",
    "Klettschuhe", "Schnürschuhe", "Abendkleid", "Ballkleid", "Ballerinas",
    "Mokassins", "Zehensandalen", "Bastschuhe", "Segelschuhe", "Wedges",
    "Plateauschuhe", "Stoffschuhe", "Clogs", "Römersandalen", "Kampfstiefel",
    "Chelseaboots", "Brogues", "Halbschuhe", "Oxfordschuhe", "Laufschuhe",
    "Kletterhosen", "Sport-BH", "Funktionsshirt"
  >>

\* ------------------------------------------------------------------
\* Character strings
\* ------------------------------------------------------------------
Digits == <<"0", "1", "2", "3", "4", "5", "6", "7", "8", "9">>

\* str(n) of an int n >= 0: no leading zeros
RECURSIVE IntToStr(_)
IntToStr(n) ==
  IF n < 10 THEN <<Digits[n + 1]>>
  ELSE IntToStr(n \div 10) \o <<Digits[(n % 10) + 1]>>

DigitVal(c) == CHOOSE d \in 0..9 : Digits[d + 1] = c

\* int(s) of a string of digits
RECURSIVE StrToInt(_)
StrToInt(cs) ==
  IF cs = <<>> THEN 0
  ELSE 10 * StrToInt(SubSeq(cs, 1, Len(cs) - 1)) + DigitVal(cs[Len(cs)])

\* int(x) of an int or of a string
int(x) == IF x.t = "int" THEN x.v ELSE StrToInt(x.v)

\* the index of the first " " of cs, 0 when it has none
RECURSIVE FirstSpace(_, _)
FirstSpace(cs, i) ==
  IF i > Len(cs) THEN 0 ELSE IF cs[i] = " " THEN i ELSE FirstSpace(cs, i + 1)

\* ------------------------------------------------------------------
\* The random streams
\* ------------------------------------------------------------------
Modulus == 2^16

\* the stream's state after one draw
Advance(s) == (s * 25173 + 13849) % Modulus

\* seed(n): the state a seed puts a stream in
SeedState(seed) == Advance(seed % Modulus)

\* the state an unseeded stream gets from the operating system's entropy
EntropyState(e) == Advance(Advance(1000 + e))

\* an integer in 0..n-1 from the state
RandBelow(s, n) == (s * n) \div Modulus

\* random.random(): a double in [0, 1)
random_random(s) == [v |-> FRound(BFromInt(s), -16, FALSE), s |-> Advance(s)]

\* random.randint(a, b): an integer in a..b
random_randint(s, a, b) == [v |-> a + RandBelow(s, b - a + 1), s |-> Advance(s)]

\* random.choice(seq)
random_choice(s, seq) == [v |-> seq[1 + RandBelow(s, Len(seq))], s |-> Advance(s)]

\* random.uniform(a, b) == a + (b - a) * random()
random_uniform(s, a, b) ==
  LET u == random_random(s)
  IN  [v |-> FAdd(a, FMul(FSub(b, a), u.v)), s |-> u.s]

\* ------------------------------------------------------------------
\* Faker (de_DE), drawing from its own stream
\* ------------------------------------------------------------------
\* a sample of the city names Faker returns: Berlin and Bremen are keys of
\* city_coords, Aachen and Bad Kissingen are not
FakerCities ==
  << <<"A", "a", "c", "h", "e", "n">>,
     <<"B", "e", "r", "l", "i", "n">>,
     <<"B", "a", "d", " ", "K", "i", "s", "s", "i", "n", "g", "e", "n">>,
     <<"B", "r", "e", "m", "e", "n">> >>

FakerStreets == <<"Hauptstr.", "Gartenweg", "Am Markt">>

faker_city(f) == [v |-> FakerCities[1 + RandBelow(f, Len(FakerCities))], s |-> Advance(f)]

faker_street_name(f) ==
  [v |-> FakerStreets[1 + RandBelow(f, Len(FakerStreets))], s |-> Advance(f)]

faker_building_number(f) == [v |-> IntToStr(1 + RandBelow(f, 999)), s |-> Advance(f)]

\* date_of_birth: a day after today - (maximum_age + 1) years, up to
\* today - minimum_age years
faker_date_of_birth(f, today, minimum_age, maximum_age) ==
  [v |-> today - minimum_age * 365
               - RandBelow(f, (maximum_age + 1 - minimum_age) * 365),
   s |-> Advance(f)]

\* date_time_this_year: a moment between the start of the current year and now
faker_date_time_this_year(f, today) ==
  LET start == today - (today % 365)
  IN  [v |-> start + RandBelow(f, today - start + 1), s |-> Advance(f)]

\* ------------------------------------------------------------------
\* The field generators
\* ------------------------------------------------------------------
\* generate_zip_code with the table not consulted: every state gets a code of
\* the default range of line 183
generate_zip_code_default(state, s) ==
  LET d == random_randint(s, 10000, 19999)
  IN  [v |-> IntToStr(d.v), s |-> d.s]

\* lines 172-194
generate_zip_code(state, s) ==
  LET found     == IF state \in Keys(zip_code_ranges)
                   THEN Get(zip_code_ranges, state)
                   ELSE PyTuple(PyInt(10000), PyInt(19999))
      pick      == IF state = "Sachsen"
                   THEN random_choice(s, found.v)
                   ELSE [v |-> found, s |-> s]
      zip_range == pick.v
  IN  IF zip_range.t = "tuple"
      THEN LET d == random_randint(pick.s, int(zip_range.v[1]), int(zip_range.v[2]))
           IN  [v |-> IntToStr(d.v), s |-> d.s]
      ELSE [v |-> zip_range, s |-> pick.s]

\* the centre of Germany, line 211
Centroid == <<511657, 104515>>

\* generate_geo_coordinates with the coordinates of Berlin, the default city
\* of line 366, for a city that is not in the table
generate_geo_coordinates_berlin(city) ==
  IF city \in Keys(city_coords) THEN Get(city_coords, city)
  ELSE Get(city_coords, <<"B", "e", "r", "l", "i", "n">>)

\* lines 196-211
generate_geo_coordinates(city) ==
  IF city \in Keys(city_coords) THEN Get(city_coords, city) ELSE Centroid

\* the parts of the username, not joined: no operation reads the address
Lower(name) == [lower |-> name]
Initial(name) == [first_char |-> name]

generate_email(first_name, last_name, s) ==
  LET provider == random_choice(s, email_providers)
      format   == random_randint(provider.s, 1, 4)
      digits   == random_randint(format.s, 1, 100)
      username ==
        IF format.v = 1 THEN <<Lower(first_name), ".", Lower(last_name), digits.v>>
        ELSE IF format.v = 2 THEN <<Initial(Lower(first_name)), Lower(last_name), digits.v>>
        ELSE IF format.v = 3 THEN <<Lower(first_name), Initial(Lower(last_name)), digits.v>>
        ELSE <<Lower(last_name), ".", Lower(first_name), digits.v>>
  IN  [v |-> <<username, "@", provider.v>>, s |-> digits.s]

\* generate_address with the city, the street name and the building number
\* drawn from random's stream, Faker's left alone
generate_address_one_stream(state, s, f) ==
  LET zip_code == generate_zip_code(state, s)
      city     == faker_city(zip_code.s)
      name     == faker_street_name(city.s)
      number   == faker_building_number(name.s)
  IN  [zip_city |-> zip_code.v \o <<" ">> \o city.v,
       street   |-> <<name.v, " ", number.v>>,
       s        |-> number.s,
       f        |-> f]

\* lines 242-257
generate_address(state, s, f) ==
  LET zip_code == generate_zip_code(state, s)
      city     == faker_city(f)
      name     == faker_street_name(city.s)
      number   == faker_building_number(name.s)
  IN  [zip_city |-> zip_code.v \o <<" ">> \o city.v,
       street   |-> <<name.v, " ", number.v>>,
       s        |-> zip_code.s,
       f        |-> number.s]

generate_birthday(f, today, min_age, max_age) ==
  faker_date_of_birth(f, today, min_age, max_age)

\* the double a sum of cents denotes
Euro(cents) == FFromRatio(cents, 100)

\* round(random.uniform(5.0, 199.99), 2), in cents
generate_price(s) ==
  LET u == random_uniform(s, FFromInt(5), FFromRatio(19999, 100))
  IN  [v |-> Round2(u.v), s |-> u.s]

\* generate_stueckzahl as one draw of random.randint(0, 5)
generate_stueckzahl_from_zero(s) == random_randint(s, 0, 5)

\* lines 290-302
generate_stueckzahl(s) ==
  LET u == random_random(s)
  IN  IF FLess(u.v, FFromRatio(7, 10))
      THEN [v |-> 1, s |-> u.s]
      ELSE random_randint(u.s, 2, 5)

\* the rate in percent
generate_sales_tax(s) ==
  LET u == random_random(s)
  IN  [v |-> IF FLess(u.v, FFromRatio(8, 10)) THEN 19 ELSE 7, s |-> u.s]

generate_purchase_type(s) == random_choice(s, <<"Online", "In-Store">>)

\* zip_city.split(" ", 1)[1] if " " in zip_city else "Berlin"
CityOf(zip_city) ==
  LET i == FirstSpace(zip_city, 1)
  IN  IF i > 0 THEN SubSeq(zip_city, i + 1, Len(zip_city))
      ELSE <<"B", "e", "r", "l", "i", "n">>

\* lines 331-337: the pool the first name is drawn from
FirstNamePool_male(gender) == first_names_male

FirstNamePool(gender) ==
  IF gender = "male" THEN first_names_male ELSE first_names_female

\* a purchase with the subtotal of one unit, whatever the quantity
Purchase_unit(price, quantity, tax_rate) ==
  LET subtotal   == Euro(price)
      tax_amount == FMul(subtotal, FFromRatio(tax_rate, 100))
      total      == FAdd(subtotal, tax_amount)
  IN  [price      |-> Round2(Euro(price)),
       quantity   |-> quantity,
       tax_rate   |-> tax_rate,
       tax_amount |-> Round2(tax_amount),
       subtotal   |-> Round2(subtotal),
       total      |-> Round2(total)]

\* lines 361-363 and 382-387: the money fields of a profile, each rounded on
\* its own from the unrounded doubles
Purchase(price, quantity, tax_rate) ==
  LET subtotal   == FMul(Euro(price), FFromInt(quantity))
      tax_amount == FMul(subtotal, FFromRatio(tax_rate, 100))
      total      == FAdd(subtotal, tax_amount)
  IN  [price      |-> Round2(Euro(price)),
       quantity   |-> quantity,
       tax_rate   |-> tax_rate,
       tax_amount |-> Round2(tax_amount),
       subtotal   |-> Round2(subtotal),
       total      |-> Round2(total)]


\* ------------------------------------------------------------------
\* The program's state
\* ------------------------------------------------------------------
VARIABLES
  pc,               \* where the run is
  args,             \* the parsed command line: num, format, seed, map
  attached,         \* whether the functions of lines 290-496 are attributes of the generator
  EXCEL_AVAILABLE,  \* set by the imports
  FOLIUM_AVAILABLE, \* set by the imports
  now,              \* the day of this run
  rnd,              \* the state of random's stream
  fk,               \* the state of Faker's stream
  profiles,         \* the list generate_profiles builds
  out,              \* what became of each output: "-", "written", "unavailable", "failed"
  err,              \* the exception that ended the run, NoError when there is none
  run,              \* 1 in the first run of the command line, 2 in the second
  prev              \* the profiles the first run returned

vars == <<pc, args, attached, EXCEL_AVAILABLE, FOLIUM_AVAILABLE, now, rnd, fk,
          profiles, out, err, run, prev>>

NoError == "none"

Formats == {"csv", "excel", "json", "all"}
Outputs == {"csv", "excel", "json", "map"}

\* the names the class body (lines 36-288) defines
ClassAttrs ==
  {"__init__", "generate_zip_code", "generate_geo_coordinates", "generate_email",
   "generate_address", "generate_birthday", "generate_price"}

\* the functions defined at column 0 after the class body: each takes self as
\* its first parameter and is called as an attribute of the generator
ModuleFuncs ==
  {"generate_stueckzahl", "generate_sales_tax", "generate_purchase_type",
   "generate_profile", "generate_profiles", "create_dataframe", "save_to_csv",
   "save_to_excel", "save_to_json", "create_map"}

\* whether generator.<name> resolves: a name of the class body always does, a
\* module-level function only on a generator it has been attached to
Resolves(name) == name \in ClassAttrs \/ (attached /\ name \in ModuleFuncs)

NoOutput == [o \in Outputs |-> "-"]

\* the outputs the command line asks for
Requested(a) ==
  {o \in Outputs :
     \/ o = "map" /\ a.map
     \/ o # "map" /\ (a.format = o \/ a.format = "all")}

Init ==
  /\ pc = "import"
  /\ args \in [num : -1..MaxCount, format : Formats, seed : {Some(n) : n \in Seeds} \cup {None},
               map : BOOLEAN]
  /\ attached \in BOOLEAN
  /\ EXCEL_AVAILABLE = FALSE
  /\ FOLIUM_AVAILABLE = FALSE
  /\ now = FirstDay
  /\ rnd = 0
  /\ fk = 0
  /\ profiles = <<>>
  /\ out = NoOutput
  /\ err = NoError
  /\ run = 1
  /\ prev = <<>>

Abort(e) == pc' = "aborted" /\ err' = e

\* lines 9-33: openpyxl is imported at line 19 outside any try, folium and
\* (again) openpyxl inside one
Import ==
  /\ pc = "import"
  /\ \E openpyxl, folium \in BOOLEAN :
       IF ~openpyxl
       THEN /\ Abort("ImportError")
            /\ UNCHANGED <<EXCEL_AVAILABLE, FOLIUM_AVAILABLE>>
       ELSE /\ pc' = "main"
            /\ EXCEL_AVAILABLE' = TRUE
            /\ FOLIUM_AVAILABLE' = folium
            /\ err' = err
  /\ UNCHANGED <<args, attached, now, rnd, fk, profiles, out, run, prev>>

\* main, lines 518-521, and __init__, lines 47-52: both streams are seeded
\* with the seed when one is given
Construct ==
  /\ pc = "main"
  /\ IF args.seed # None
     THEN rnd' = SeedState(args.seed[1]) /\ fk' = SeedState(args.seed[1])
     ELSE \E a, b \in 0..MaxEntropy : rnd' = EntropyState(a) /\ fk' = EntropyState(b)
  /\ pc' = "call"
  /\ UNCHANGED <<args, attached, EXCEL_AVAILABLE, FOLIUM_AVAILABLE, now, profiles,
                 out, err, run, prev>>

\* main, line 524: generator.generate_profiles(args.num), up to line 404
CallGenerateProfiles ==
  /\ pc = "call"
  /\ IF Resolves("generate_profiles")
     THEN pc' = "loop" /\ err' = err
     ELSE Abort("AttributeError")
  /\ profiles' = <<>>
  /\ UNCHANGED <<args, attached, EXCEL_AVAILABLE, FOLIUM_AVAILABLE, now, rnd, fk,
                 out, run, prev>>

\* lines 324-392: one profile, appended to the list (line 406)
generate_profile ==
  \E toss \in {random_random(rnd)} :
  \E gender \in {IF FLess(toss.v, FFromRatio(5, 10)) THEN "male" ELSE "female"} :
  \E first_name \in {random_choice(toss.s, FirstNamePool(gender))} :
  \E last_name \in {random_choice(first_name.s, last_names)} :
  \E email \in {generate_email(first_name.v, last_name.v, last_name.s)} :
  \E state \in {random_choice(email.s, states)} :
  \E address \in {generate_address(state.v, state.s, fk)} :
  \E birthday \in {generate_birthday(address.f, now, 18, 80)} :
  \E item \in {random_choice(address.s, purchase_items)} :
  \E price \in {generate_price(item.s)} :
  \E quantity \in {generate_stueckzahl(price.s)} :
  \E tax_rate \in {generate_sales_tax(quantity.s)} :
  \E purchase_type \in {generate_purchase_type(tax_rate.s)} :
  \E sums \in {Purchase(price.v, quantity.v, tax_rate.v)} :
  \E coords \in {generate_geo_coordinates(CityOf(address.zip_city))} :
  \E purchase_date \in {faker_date_time_this_year(birthday.s, now)} :
    /\ profiles' = Append(profiles,
         [first_name    |-> first_name.v,
          last_name     |-> last_name.v,
          gender        |-> gender,
          email         |-> email.v,
          birthday      |-> birthday.v,
          street        |-> address.street,
          zip_city      |-> address.zip_city,
          state         |-> state.v,
          latitude      |-> coords[1],
          longitude     |-> coords[2],
          purchase_item |-> item.v,
          price         |-> sums.price,
          quantity      |-> sums.quantity,
          tax_rate      |-> sums.tax_rate,
          tax_amount    |-> sums.tax_amount,
          subtotal      |-> sums.subtotal,
          total         |-> sums.total,
          purchase_type |-> purchase_type.v,
          purchase_date |-> purchase_date.v])
    /\ rnd' = purchase_type.s
    /\ fk' = purchase_date.s

\* lines 405-406: one turn of for _ in range(count)
GenerateProfile ==
  /\ pc = "loop"
  /\ Len(profiles) < args.num
  /\ generate_profile
  /\ UNCHANGED <<pc, args, attached, EXCEL_AVAILABLE, FOLIUM_AVAILABLE, now, out,
                 err, run, prev>>

\* line 407, and create_dataframe at line 527
Return ==
  /\ pc = "loop"
  /\ Len(profiles) >= args.num
  /\ pc' = "csv"
  /\ UNCHANGED <<args, attached, EXCEL_AVAILABLE, FOLIUM_AVAILABLE, now, rnd, fk,
                 profiles, out, err, run, prev>>

\* one output: skipped when not asked for; when its library is missing a
\* message is printed and the function returns; else the file is written, or
\* the write raises and nothing catches it
Save(o, available, next) ==
  /\ IF o \notin Requested(args)
     THEN pc' = next /\ UNCHANGED <<out, err>>
     ELSE IF ~available
     THEN pc' = next /\ out' = [out EXCEPT ![o] = "unavailable"] /\ err' = err
     ELSE \E written \in BOOLEAN :
            IF written
            THEN pc' = next /\ out' = [out EXCEPT ![o] = "written"] /\ err' = err
            ELSE Abort("OSError") /\ out' = [out EXCEPT ![o] = "failed"]
  /\ UNCHANGED <<args, attached, EXCEL_AVAILABLE, FOLIUM_AVAILABLE, now, rnd, fk,
                 profiles, run, prev>>

\* lines 530-531, save_to_csv
SaveCsv == pc = "csv" /\ Save("csv", TRUE, "excel")

\* lines 533-534, save_to_excel
SaveExcel == pc = "excel" /\ Save("excel", EXCEL_AVAILABLE, "json")

\* lines 536-537, save_to_json
SaveJson == pc = "json" /\ Save("json", TRUE, "map")

\* lines 540-541, create_map; main returns after it
CreateMap == pc = "map" /\ Save("map", FOLIUM_AVAILABLE, "done")

\* a command line with a seed run again, in the same environment, MaxDelay
\* days later at most
Rerun ==
  /\ pc = "done"
  /\ run = 1
  /\ args.seed # None
  /\ run' = 2
  /\ prev' = profiles
  /\ \E d \in 0..MaxDelay : now' = now + d
  /\ pc' = "main"
  /\ rnd' = 0
  /\ fk' = 0
  /\ profiles' = <<>>
  /\ out' = NoOutput
  /\ UNCHANGED <<args, attached, EXCEL_AVAILABLE, FOLIUM_AVAILABLE, err>>

Next ==
  \/ Import
  \/ Construct
  \/ CallGenerateProfiles
  \/ GenerateProfile
  \/ Return
  \/ SaveCsv
  \/ SaveExcel
  \/ SaveJson
  \/ CreateMap
  \/ Rerun

Spec == Init /\ [][Next]_vars


\* ------------------------------------------------------------------
\* Properties
\* ------------------------------------------------------------------
Range(seq) == {seq[i] : i \in 1..Len(seq)}

\* the profiles generated so far in this run
Profiles == Range(profiles)

Abs(n) == IF n < 0 THEN -n ELSE n

\* the ZIP code of a zip_city: the text before its first space
ZipOf(zip_city) == SubSeq(zip_city, 1, FirstSpace(zip_city, 1) - 1)

\* the ranges zip_code_ranges registers for a state
RegisteredRanges(state) ==
  LET r == Get(zip_code_ranges, state)
  IN  IF r.t = "list" THEN Range(r.v) ELSE {r}

InRegisteredRange(state, zip) ==
  \E r \in RegisteredRanges(state) :
    int(r.v[1]) <= StrToInt(zip) /\ StrToInt(zip) <= int(r.v[2])

SachsenCodes == (1000..1999) \cup (4000..4999)

\* C1: the number a generated ZIP code denotes lies in a range registered for
\* its state, for the profiles generated and for the code generate_zip_code
\* returns for each of the 16 states from the stream as it stands; for Sachsen
\* it lies in 1000..1999 or 4000..4999
C1_ZipWithinRegisteredRange ==
  /\ \A p \in Profiles :
       /\ InRegisteredRange(p.state, ZipOf(p.zip_city))
       /\ p.state = "Sachsen" => StrToInt(ZipOf(p.zip_city)) \in SachsenCodes
  /\ pc = "loop" =>
       \A state \in Range(states) :
         /\ InRegisteredRange(state, generate_zip_code(state, rnd).v)
         /\ state = "Sachsen" => StrToInt(generate_zip_code(state, rnd).v) \in SachsenCodes

\* a profile of Sachsen has been generated
C1_SachsenProfile ==
  \E p \in Profiles : p.state = "Sachsen" /\ StrToInt(ZipOf(p.zip_city)) \in SachsenCodes

\* round(subtotal + tax_amount, 2) of the stored fields
SumOfStored(p) == Round2(FAdd(Euro(p.subtotal), Euro(p.tax_amount)))

\* round(price * quantity, 2) of the stored fields
ProductOfStored(p) == Round2(FMul(Euro(p.price), FFromInt(p.quantity)))

WithinOneCent(p) ==
  p.subtotal = ProductOfStored(p) /\ Abs(p.total - SumOfStored(p)) <= 1

AfterGeneration == {"csv", "excel", "json", "map", "done"}

Fields ==
  {"first_name", "last_name", "gender", "email", "birthday", "street", "zip_city",
   "state", "latitude", "longitude", "purchase_item", "price", "quantity", "tax_rate",
   "tax_amount", "subtotal", "total", "purchase_type", "purchase_date"}

\* C4 as stated: for a count >= 0 the call of generate_profiles raises nothing
\* and returns count profiles with every field set
C4_GenerateProfilesReturns ==
  args.num >= 0 =>
    /\ err # "AttributeError"
    /\ pc \in AfterGeneration =>
         Len(profiles) = args.num /\ \A p \in Profiles : DOMAIN p = Fields

OutputFailed ==
  err = "ImportError" \/ \E o \in Outputs : out[o] \in {"unavailable", "failed"}

\* C6 as stated: a run in which an output failed still ends without an
\* exception, with every requested output attempted
C6_OutputsIndependent ==
  (pc \in {"done", "aborted"} /\ OutputFailed) =>
    err = NoError /\ \A o \in Requested(args) : out[o] # "-"

CoordinatesOf(city, coords) ==
  \/ \E e \in Range(city_coords) : e[1] = city /\ e[2] = coords
  \/ (\A e \in Range(city_coords) : e[1] # city) /\ coords = <<511657, 104515>>

\* C7: generate_geo_coordinates returns the table's entry for a city of the
\* table and (51.1657, 10.4515) for any other, and the latitude and longitude
\* of every profile are those of the city part of its zip_city
C7_CoordinatesFromTableOrCentroid ==
  /\ \A city \in Keys(city_coords) \cup Range(FakerCities) :
       CoordinatesOf(city, generate_geo_coordinates(city))
  /\ \A p \in Profiles :
       CoordinatesOf(CityOf(p.zip_city), <<p.latitude, p.longitude>>)

\* a profile of a city the table does not have, at the centroid
C7_ProfileAtCentroid ==
  \E p \in Profiles :
    /\ CityOf(p.zip_city) \notin Keys(city_coords)
    /\ <<p.latitude, p.longitude>> = Centroid

\* C8: every profile has a tax rate of 19 or 7 percent and a quantity in
\* 1..5, and so have the draws the stream gives next
C8_TaxRateAndQuantity ==
  /\ \A p \in Profiles : p.tax_rate \in {19, 7} /\ p.quantity \in 1..5
  /\ pc = "loop" =>
       generate_sales_tax(rnd).v \in {19, 7} /\ generate_stueckzahl(rnd).v \in 1..5

\* a profile at the reduced rate and one with more than one unit
C8_ReducedRateAndSeveralUnits ==
  \E p, q \in Profiles : p.tax_rate = 7 /\ q.quantity > 1

\* C9: the first name of a male profile is of first_names_male and not of
\* first_names_female, that of a female profile the other way round
C9_FirstNameMatchesGender ==
  \A p \in Profiles :
    /\ p.gender \in {"male", "female"}
    /\ p.gender = "male" =>
         p.first_name \in Range(first_names_male) \ Range(first_names_female)
    /\ p.gender = "female" =>
         p.first_name \in Range(first_names_female) \ Range(first_names_male)

\* a batch with a male and a female profile
C9_BothGenders ==
  \E p, q \in Profiles : p.gender = "male" /\ q.gender = "female"

\* C10 as stated: every ZIP code generate_zip_code returns has 5 digits, for
\* each of the 16 states
C10_ZipHasFiveDigits ==
  /\ \A p \in Profiles : Len(ZipOf(p.zip_city)) = 5
  /\ pc = "call" =>
       \A state \in Range(states) : Len(generate_zip_code(state, rnd).v) = 5

\* the state of a stream n draws after state s
RECURSIVE Draws(_, _)
Draws(s, n) == IF n = 0 THEN s ELSE Draws(Advance(s), n - 1)

\* a generator constructed with a seed, in or after generate_profiles
Seeded == args.seed # None /\ pc \in {"call", "loop"} \cup AfterGeneration

====
